---- MODULE Spec2Model ----
(***************************************************************************)
(* Model of src/app.py (garmin-export-visualiser): the four Dash callbacks *)
(* parse_contents, update_options, update_output and download_data, the    *)
(* session store "upload-data-output" they share, and the pandas           *)
(* operations they call (read_json, concat, sort_values, to_json,          *)
(* groupby/agg).                                                           *)
(*                                                                         *)
(* Conventions.                                                            *)
(*  - A cell is a record [k, n, d, e, r, s]: kind k is "num", "date",      *)
(*    "str" or "nan".  A number is the exact rational (n/d) * 10^e; r      *)
(*    marks a number that went through to_json's rounding to 10 decimals   *)
(*    and is therefore no longer the exact rational.  A date is a day      *)
(*    count n since 1970-01-01.  int64 and float64 are not told apart.     *)
(*  - A DataFrame is [cols, rows]: cols the ordered column labels, rows    *)
(*    the ordered rows, each [idx, c] with idx the index label and c the   *)
(*    function from column label to cell.                                  *)
(*  - calendarDate is never null in an uploaded file, and is a date-only   *)
(*    ISO string "YYYY-MM-DD".                                             *)
(***************************************************************************)
EXTENDS Integers, Sequences, FiniteSets, TLC

VARIABLES store, op, args, ret, df

vars == <<store, op, args, ret, df>>

(***************************************************************************)
(* Program constants                                                       *)
(***************************************************************************)
DATE_COL == "calendarDate"

TIME_COLS == <<"calendarDate", "week", "month", "year">>

AGGREGATE_FUNCTIONS == <<"median", "mean", "sum", "min", "max", "count">>

(***************************************************************************)
(* Bounds                                                                  *)
(***************************************************************************)
MaxFiles == 2

(***************************************************************************)
(* Sequences and strings                                                   *)
(***************************************************************************)
Range(s) == {s[i] : i \in DOMAIN s}

RECURSIVE SeqsUpTo(_, _)
SeqsUpTo(S, n) ==
    IF n = 0 THEN {<<>>}
    ELSE LET shorter == SeqsUpTo(S, n - 1)
         IN  shorter \cup {Append(q, x) : q \in {t \in shorter : Len(t) = n - 1}, x \in S}

Char(s, i) == SubSeq(s, i, i)

\* str.endswith
EndsWith(s, suf) ==
    /\ Len(s) >= Len(suf)
    /\ SubSeq(s, Len(s) - Len(suf) + 1, Len(s)) = suf

\* the positions at which old occurs in s
Occurrences(s, old) ==
    {i \in 1..(Len(s) - Len(old) + 1) : SubSeq(s, i, i + Len(old) - 1) = old}

Min(S) == CHOOSE x \in S : \A y \in S : x <= y

\* str.replace: every non-overlapping occurrence, scanning left to right
RECURSIVE StrReplace(_, _, _)
StrReplace(s, old, new) ==
    IF Occurrences(s, old) = {} THEN s
    ELSE LET i == Min(Occurrences(s, old))
         IN  SubSeq(s, 1, i - 1) \o new
                \o StrReplace(SubSeq(s, i + Len(old), Len(s)), old, new)

UpperChars == "ABCDEFGHIJKLMNOPQRSTUVWXYZ"
LowerChars == "abcdefghijklmnopqrstuvwxyz"
DigitChars == "0123456789"

IndexIn(c, alphabet) ==
    IF \E i \in 1..Len(alphabet) : Char(alphabet, i) = c
    THEN CHOOSE i \in 1..Len(alphabet) : Char(alphabet, i) = c
    ELSE 0

IsUpper(c) == IndexIn(c, UpperChars) > 0
IsDigit(c) == IndexIn(c, DigitChars) > 0
ToLowerChar(c) == IF IsUpper(c) THEN Char(LowerChars, IndexIn(c, UpperChars)) ELSE c
ToUpperChar(c) ==
    IF IndexIn(c, LowerChars) > 0 THEN Char(UpperChars, IndexIn(c, LowerChars)) ELSE c

\* code point order of the characters that occur in column labels
CharOrd(c) ==
    IF IsDigit(c) THEN IndexIn(c, DigitChars)
    ELSE IF IsUpper(c) THEN 20 + IndexIn(c, UpperChars)
    ELSE IF IndexIn(c, LowerChars) > 0 THEN 60 + IndexIn(c, LowerChars)
    ELSE 0

\* a < b for strings: at the first position where they differ
StrLess(a, b) ==
    LET n     == IF Len(a) < Len(b) THEN Len(a) ELSE Len(b)
        diffs == {i \in 1..n : Char(a, i) # Char(b, i)}
    IN  IF diffs = {} THEN Len(a) < Len(b)
        ELSE CharOrd(Char(a, Min(diffs))) < CharOrd(Char(b, Min(diffs)))

\* the characters lo..hi of s, a space put before each upper case one that is
\* not the first character of s
RECURSIVE MapChars(_, _, _)
MapChars(s, lo, hi) ==
    IF lo > hi THEN ""
    ELSE IF lo = hi
    THEN IF IsUpper(Char(s, lo)) /\ lo # 1 THEN " " \o Char(s, lo) ELSE Char(s, lo)
    ELSE LET mid == (lo + hi) \div 2
         IN  MapChars(s, lo, mid) \o MapChars(s, mid + 1, hi)

\* str.lower
RECURSIVE LowerAll(_)
LowerAll(s) ==
    IF Len(s) = 0 THEN ""
    ELSE IF Len(s) = 1 THEN ToLowerChar(s)
    ELSE LET mid == Len(s) \div 2
         IN  LowerAll(SubSeq(s, 1, mid)) \o LowerAll(SubSeq(s, mid + 1, Len(s)))

\* str.capitalize
Capitalize(s) ==
    IF Len(s) = 0 THEN "" ELSE ToUpperChar(Char(s, 1)) \o LowerAll(SubSeq(s, 2, Len(s)))

normalise_camel_case(x) == Capitalize(MapChars(x, 1, Len(x)))

\* int(str): the string is a non-empty run of decimal digits
IsIntString(s) == Len(s) > 0 /\ \A i \in 1..Len(s) : IsDigit(Char(s, i))

RECURSIVE ParseInt(_)
ParseInt(s) ==
    IF Len(s) = 0 THEN 0
    ELSE 10 * ParseInt(SubSeq(s, 1, Len(s) - 1)) + (IndexIn(Char(s, Len(s)), DigitChars) - 1)

(***************************************************************************)
(* Calendar: proleptic Gregorian, days counted from 1970-01-01             *)
(***************************************************************************)
DaysFromCivil(y0, m, d) ==
    LET y   == IF m <= 2 THEN y0 - 1 ELSE y0
        era == y \div 400
        yoe == y - era * 400
        mp  == IF m > 2 THEN m - 3 ELSE m + 9
        doy == (153 * mp + 2) \div 5 + d - 1
        doe == yoe * 365 + yoe \div 4 - yoe \div 100 + doy
    IN  era * 146097 + doe - 719468

CivilFromDays(z0) ==
    LET z   == z0 + 719468
        era == z \div 146097
        doe == z - era * 146097
        yoe == (doe - doe \div 1460 + doe \div 36524 - doe \div 146096) \div 365
        doy == doe - (365 * yoe + yoe \div 4 - yoe \div 100)
        mp  == (5 * doy + 2) \div 153
        d   == doy - (153 * mp + 2) \div 5 + 1
        m   == IF mp < 10 THEN mp + 3 ELSE mp - 9
        y   == yoe + era * 400 + (IF m <= 2 THEN 1 ELSE 0)
    IN  [year |-> y, month |-> m, day |-> d]

\* Series.dt.dayofweek: Monday = 0
DayOfWeek(z) == (z + 3) % 7

\* Series.dt.day
DayOfMonth(z) == CivilFromDays(z).day

\* Series.dt.year
YearOf(z) == CivilFromDays(z).year

\* "YYYY-MM-DD" to a day count
DateFromISO(s) ==
    DaysFromCivil(ParseInt(SubSeq(s, 1, 4)), ParseInt(SubSeq(s, 6, 7)), ParseInt(SubSeq(s, 9, 10)))

(***************************************************************************)
(* Cells                                                                   *)
(***************************************************************************)
RECURSIVE GCD(_, _)
GCD(a, b) == IF b = 0 THEN a ELSE GCD(b, a % b)

Num(n, d) ==
    LET g == GCD(n, d)
    IN  [k |-> "num", n |-> n \div g, d |-> d \div g, e |-> 0, r |-> FALSE, s |-> ""]

NaN == [k |-> "nan", n |-> 0, d |-> 1, e |-> 0, r |-> FALSE, s |-> ""]

Date(z) == [k |-> "date", n |-> z, d |-> 1, e |-> 0, r |-> FALSE, s |-> ""]

Str(t) == [k |-> "str", n |-> 0, d |-> 1, e |-> 0, r |-> FALSE, s |-> t]

IsNull(c) == c.k = "nan"

(***************************************************************************)
(* DataFrames                                                              *)
(***************************************************************************)
\* f as an explicit table, s as an explicit tuple (the values are unchanged)
Tabulate(f) == f @@ <<>>

Tuple(s) == s \o <<>>

\* TRUE; evaluates v where it stands instead of where v is first used
Forced(v) == v = v

Frame(cols, rows) ==
    [cols |-> cols,
     rows |-> Tuple([i \in DOMAIN rows |->
                       [idx |-> rows[i].idx, c |-> Tabulate(rows[i].c)]])]

Column(f, col) == [i \in DOMAIN f.rows |-> f.rows[i].c[col]]

HasCol(f, col) == col \in Range(f.cols)

\* df[col] = values: overwrite in place when the label exists, else append it
SetColumn(f, col, values) ==
    Frame(IF HasCol(f, col) THEN f.cols ELSE Append(f.cols, col),
          [i \in DOMAIN f.rows |->
              [idx |-> f.rows[i].idx,
               c   |-> [x \in Range(f.cols) \cup {col} |->
                           IF x = col THEN values[i] ELSE f.rows[i].c[x]]]])

\* df[[...]]: projection to the listed labels, in the listed order
Project(f, cols) ==
    Frame(cols,
          [i \in DOMAIN f.rows |->
              [idx |-> f.rows[i].idx, c |-> [x \in Range(cols) |-> f.rows[i].c[x]]]])

(***************************************************************************)
(* pandas.read_json type conversion (pandas/io/json/_json.py)              *)
(***************************************************************************)
\* Parser._MIN_STAMPS["s"]: numbers at or below it are not taken for dates
MIN_STAMP == 31536000

\* last whole day of Timestamp.max (2262-04-11)
MaxTimestampDay == 106751

\* value of a number cell > MIN_STAMP, for e = 0 and e = 5
GtMinStamp(c) ==
    IF c.e = 0
    THEN \/ c.n \div c.d > MIN_STAMP
         \/ c.n \div c.d = MIN_STAMP /\ c.n % c.d > 0
    ELSE 25 * c.n > 7884 * c.d

\* to_datetime(number, unit): the day the number denotes, -1 when the
\* timestamp is out of bounds.  Only whole days occur.
DayWithUnit(c, unit) ==
    LET q     == 864 * c.d
        whole == IF c.e = 0
                 THEN IF unit = "s"
                      THEN (c.n \div c.d) \div 86400
                      ELSE (c.n \div c.d) \div 86400000
                 ELSE IF unit = "s"
                      THEN IF c.n \div q > MaxTimestampDay
                           THEN MaxTimestampDay + 1
                           ELSE (c.n \div q) * 1000 + ((c.n % q) * 1000) \div q
                      ELSE c.n \div q
    IN  IF whole > MaxTimestampDay THEN -1 ELSE whole

\* Parser._try_convert_to_date on one column
TryConvertToDate(cells) ==
    LET idxs    == DOMAIN cells
        strs    == \A i \in idxs : cells[i].k = "str"
        ints    == strs /\ \A i \in idxs : IsIntString(cells[i].s)
        asNum   == IF ints
                   THEN [i \in idxs |-> Num(ParseInt(cells[i].s), 1)]
                   ELSE cells
        numeric == \A i \in idxs : asNum[i].k \in {"num", "nan"}
        inRange == \A i \in idxs : IsNull(asNum[i]) \/ GtMinStamp(asNum[i])
        fits(u) == \A i \in idxs : IsNull(asNum[i]) \/ DayWithUnit(asNum[i], u) >= 0
        conv(u) == [i \in idxs |->
                      IF IsNull(asNum[i]) THEN NaN ELSE Date(DayWithUnit(asNum[i], u))]
    IN  IF idxs = {} THEN cells
        ELSE IF numeric
        THEN IF ~inRange THEN cells
             ELSE IF fits("s") THEN conv("s")
             ELSE IF fits("ms") THEN conv("ms")
             ELSE cells
        ELSE IF strs
        THEN [i \in idxs |-> Date(DateFromISO(cells[i].s))]
        ELSE cells

\* Parser._try_convert_data with convert_dates=False: numeric strings become numbers
TryConvertData(cells) ==
    LET idxs == DOMAIN cells
    IN  IF /\ idxs # {}
           /\ \A i \in idxs : cells[i].k \in {"str", "nan"}
           /\ \E i \in idxs : cells[i].k = "str"
           /\ \A i \in idxs : cells[i].k = "str" => IsIntString(cells[i].s)
        THEN [i \in idxs |->
                IF IsNull(cells[i]) THEN NaN ELSE Num(ParseInt(cells[i].s), 1)]
        ELSE cells

\* FrameParser._try_convert_dates.is_ok: labels converted with keep_default_dates
IsDefaultDateCol(col) ==
    LET low == LowerAll(col)
    IN  \/ EndsWith(low, "_at")
        \/ EndsWith(low, "_time")
        \/ low \in {"modified", "date", "datetime"}
        \/ (Len(low) >= 9 /\ SubSeq(low, 1, 9) = "timestamp")

\* FrameParser._try_convert_types: dates first, then the other conversions,
\* column by column
ConvertColumn(f, col, convert_dates) ==
    LET cells == Column(f, col)
    IN  TryConvertData(IF col \in Range(convert_dates) \/ IsDefaultDateCol(col)
                       THEN TryConvertToDate(cells)
                       ELSE cells)

ConvertTypes(f, convert_dates) ==
    LET converted == Tabulate([col \in Range(f.cols) |->
                                  Tuple(ConvertColumn(f, col, convert_dates))])
    IN  Frame(f.cols,
              [i \in DOMAIN f.rows |->
                  [idx |-> f.rows[i].idx,
                   c   |-> [col \in Range(f.cols) |-> converted[col][i]]]])

\* select_dtypes(include=["int64", "float64"]).columns
NumericCols(f) ==
    SelectSeq(f.cols,
              LAMBDA col : \A i \in DOMAIN f.rows : f.rows[i].c[col].k \in {"num", "nan"})

(***************************************************************************)
(* parse_content: one uploaded payload to a table, or the error Div        *)
(*   a payload is [commas, json, cols, rows]: the number of commas in the  *)
(*   data URL, whether the decoded bytes are JSON records, and the records *)
(***************************************************************************)
NoFrame == Frame(<<>>, <<>>)

\* df[[DATE_COL] + num_cols]: a KeyError, caught like every exception of the
\* try block, when the file has no calendarDate
SelectDateAndNumeric(typed) ==
    IF ~HasCol(typed, DATE_COL)
    THEN [kind |-> "Div", exc |-> "", f |-> NoFrame]
    ELSE [kind |-> "df", exc |-> "",
          f |-> Project(typed, <<DATE_COL>> \o NumericCols(typed))]

parse_content(p) ==
    IF p.commas # 1
    THEN [kind |-> "raise", exc |-> "ValueError", f |-> NoFrame]
    ELSE IF p.json # "records"
    THEN [kind |-> "Div", exc |-> "", f |-> NoFrame]
    ELSE SelectDateAndNumeric(
             ConvertTypes(Frame(p.cols,
                                [i \in DOMAIN p.rows |->
                                    [idx |-> i - 1, c |-> p.rows[i]]]),
                          <<DATE_COL>>))

(***************************************************************************)
(* pandas.concat(children, ignore_index=True)                              *)
(***************************************************************************)
RECURSIVE UnionCols(_, _)
UnionCols(acc, cols) ==
    IF cols = <<>> THEN acc
    ELSE UnionCols(IF Head(cols) \in Range(acc) THEN acc ELSE Append(acc, Head(cols)),
                   Tail(cols))

RECURSIVE ConcatFrames(_, _)
ConcatFrames(acc, children) ==
    IF children = <<>> THEN acc
    ELSE LET f    == Head(children).f
             cols == UnionCols(acc.cols, f.cols)
             fill(row) == [x \in Range(cols) |->
                              IF x \in DOMAIN row.c THEN row.c[x] ELSE NaN]
             old  == [i \in DOMAIN acc.rows |->
                         [idx |-> acc.rows[i].idx, c |-> fill(acc.rows[i])]]
             new  == [i \in DOMAIN f.rows |->
                         [idx |-> Len(acc.rows) + i - 1, c |-> fill(f.rows[i])]]
             both == Frame(cols, old \o new)
         IN  IF Forced(both) THEN ConcatFrames(both, Tail(children)) ELSE both

\* Concat that makes an empty frame of no objects
ConcatEmptyFrame(children) ==
    IF \E i \in DOMAIN children : children[i].kind # "df"
    THEN [kind |-> "raise", exc |-> "TypeError", f |-> NoFrame]
    ELSE [kind |-> "df", exc |-> "", f |-> ConcatFrames(NoFrame, children)]

\* Concat that skips the objects that are not DataFrames
ConcatSkipSentinels(children) ==
    LET frames == SelectSeq(children, LAMBDA child : child.kind = "df")
    IN  IF frames = <<>>
        THEN [kind |-> "raise", exc |-> "ValueError", f |-> NoFrame]
        ELSE [kind |-> "df", exc |-> "", f |-> ConcatFrames(NoFrame, frames)]

\* the objects must be DataFrames, and there must be one at least
Concat(children) ==
    IF children = <<>>
    THEN [kind |-> "raise", exc |-> "ValueError", f |-> NoFrame]
    ELSE IF \E i \in DOMAIN children : children[i].kind # "df"
    THEN [kind |-> "raise", exc |-> "TypeError", f |-> NoFrame]
    ELSE [kind |-> "df", exc |-> "", f |-> ConcatFrames(NoFrame, children)]

(***************************************************************************)
(* Derived columns of parse_contents                                       *)
(***************************************************************************)
Week(z) == z - DayOfWeek(z)

Month(z) == z - (DayOfMonth(z) - 1)

Year(z) == ToString(YearOf(z))

AddBuckets(f) ==
    LET dates == Column(f, DATE_COL)
        w == SetColumn(f, "week", [i \in DOMAIN dates |-> Date(Week(dates[i].n))])
        m == SetColumn(w, "month", [i \in DOMAIN dates |-> Date(Month(dates[i].n))])
    IN  SetColumn(m, "year", [i \in DOMAIN dates |-> Str(Year(dates[i].n))])

\* Series / divisor
Divide(c, divisor) == IF c.k = "num" THEN Num(c.n, c.d * divisor) ELSE c

\* the four if statements of the loop body, in source order
UNIT_RULES ==
    << [suffix |-> "Meters",       target |-> "Kilometers", divisor |-> 1000],
       [suffix |-> "Minutes",      target |-> "Hours",      divisor |-> 60],
       [suffix |-> "Seconds",      target |-> "Hours",      divisor |-> 60 * 60],
       [suffix |-> "Milliseconds", target |-> "Hours",      divisor |-> 60 * 1000] >>

DerivedName(col, rule) == StrReplace(col, rule.suffix, rule.target)

RECURSIVE ApplyRules(_, _, _)
ApplyRules(f, col, j) ==
    IF j > Len(UNIT_RULES) THEN f
    ELSE LET rule == UNIT_RULES[j]
             next == IF EndsWith(col, rule.suffix)
                     THEN SetColumn(f, DerivedName(col, rule),
                                    [i \in DOMAIN f.rows |->
                                        Divide(f.rows[i].c[col], rule.divisor)])
                     ELSE f
         IN  IF Forced(next) THEN ApplyRules(next, col, j + 1) ELSE next

\* for col in df.columns: the labels are those of the frame when the loop starts
RECURSIVE UnitLoop(_, _)
UnitLoop(f, cols) ==
    IF cols = <<>> THEN f
    ELSE LET next == ApplyRules(f, Head(cols), 1)
         IN  IF Forced(next) THEN UnitLoop(next, Tail(cols)) ELSE next

AddUnitColumns(f) == UnitLoop(f, f.cols)

(***************************************************************************)
(* df.sort_values(DATE_COL): the default kind is quicksort, which leaves   *)
(* the order of rows with equal keys unspecified                           *)
(***************************************************************************)
IndexPermutations(n) ==
    {p \in [1..n -> 1..n] : \A i, j \in 1..n : i # j => p[i] # p[j]}

IsSortedBy(rows, col) ==
    \A i \in 1..(Len(rows) - 1) : rows[i].c[col].n <= rows[i + 1].c[col].n

\* SortValues that leaves the rows as they are
SortValuesUnsorted(f, col) == {f}

SortValues(f, col) ==
    {Frame(f.cols, [i \in DOMAIN f.rows |-> f.rows[p[i]]]) :
        p \in {q \in IndexPermutations(Len(f.rows)) :
                  IsSortedBy([i \in DOMAIN f.rows |-> f.rows[q[i]]], col)}}

(***************************************************************************)
(* DataFrame.to_json() with its defaults: orient="columns", dates as epoch *)
(* milliseconds, floats with double_precision=10, index labels as keys     *)
(***************************************************************************)
RECURSIVE StripFactor(_, _, _)
StripFactor(d, p, k) ==
    IF k = 0 \/ d % p # 0 THEN d ELSE StripFactor(d \div p, p, k - 1)

\* n/d is written exactly with at most 10 decimals
Terminates10(d) == StripFactor(StripFactor(d, 2, 10), 5, 10) = 1

\* epoch milliseconds of a day: day * 86400000 = (day * 864) * 10^5
EpochMs(z) == [k |-> "num", n |-> z * 864, d |-> 1, e |-> 5, r |-> FALSE, s |-> ""]

JsonCell(c) ==
    IF c.k = "date" THEN EpochMs(c.n)
    ELSE IF c.k = "num" /\ ~Terminates10(c.d) THEN [c EXCEPT !.r = TRUE]
    ELSE c

NoBlob == [none |-> TRUE, cols |-> <<>>, rows |-> <<>>]

to_json(f) ==
    [none |-> FALSE,
     cols |-> f.cols,
     rows |-> Tuple([i \in DOMAIN f.rows |->
                       [idx |-> ToString(f.rows[i].idx),
                        c   |-> Tabulate([x \in Range(f.cols) |->
                                            JsonCell(f.rows[i].c[x])])]])]

(***************************************************************************)
(* _parse_json: pd.read_json(json_data, convert_dates=TIME_COLS)           *)
(***************************************************************************)
\* Parser._convert_axes: the index keys become integers again
ConvertIndex(label) == IF IsIntString(label) THEN ParseInt(label) ELSE -1

read_json(blob, convert_dates) ==
    ConvertTypes(Frame(blob.cols,
                       [i \in DOMAIN blob.rows |->
                           [idx |-> ConvertIndex(blob.rows[i].idx), c |-> blob.rows[i].c]]),
                 convert_dates)

parse_json(json_data) ==
    IF json_data.none
    THEN [none |-> TRUE, f |-> NoFrame]
    ELSE [none |-> FALSE, f |-> read_json(json_data, TIME_COLS)]

(***************************************************************************)
(* Uploaded payloads                                                       *)
(***************************************************************************)
RawRow(cols, cells) == [x \in Range(cols) |-> cells[CHOOSE i \in DOMAIN cols : cols[i] = x]]

Records(cols, rows) ==
    [commas |-> 1, json |-> "records", cols |-> cols,
     rows |-> [i \in DOMAIN rows |-> RawRow(cols, rows[i])]]

ColsA == <<"calendarDate", "totalDistanceMeters", "activeSeconds", "uuid">>

PayloadA ==
    Records(ColsA,
            << <<Str("2024-01-03"), Num(5000, 1), Num(3600, 1), Str("a")>>,
               <<Str("2023-12-31"), Num(1500, 1), Num(100, 1),  Str("b")>>,
               <<Str("2024-01-02"), Num(2000, 1), NaN,          Str("c")>> >>)

ColsB == <<"calendarDate", "durationInMilliseconds", "activeSeconds", "restingHeartRate">>

PayloadB ==
    Records(ColsB,
            << <<Str("2024-01-03"), Num(3600000, 1), Num(60, 1), Num(50, 1)>> >>)

ColsC == <<"calendarDate", "activeMinutes", "upMetersInMeters", "odometers">>

PayloadC ==
    Records(ColsC,
            << <<Str("2024-01-01"), Num(90, 1), Num(3000, 1), Num(7, 1)>> >>)

\* bytes that are not JSON
PayloadGarbage == [commas |-> 1, json |-> "invalid", cols |-> <<>>, rows |-> <<>>]

\* JSON records without a calendarDate field
PayloadNoDate ==
    Records(<<"restingHeartRate">>, << <<Num(48, 1)>> >>)

\* not a data URL "<type>,<base64>"
PayloadNoComma == [commas |-> 0, json |-> "invalid", cols |-> <<>>, rows |-> <<>>]

TablePayloads == {PayloadA, PayloadB, PayloadC}

Payloads == TablePayloads \cup {PayloadGarbage, PayloadNoDate, PayloadNoComma}

\* the files of one upload are distinct
Distinct(list) == \A i, j \in DOMAIN list : i # j => list[i] # list[j]

\* list_of_contents: None, or a list of payloads
NoContents == [none |-> TRUE, list |-> <<>>]

Contents(list) == [none |-> FALSE, list |-> list]

ContentsInputs ==
    {NoContents} \cup {Contents(l) : l \in {q \in SeqsUpTo(Payloads, MaxFiles) : Distinct(q)}}

(***************************************************************************)
(* parse_contents                                                          *)
(***************************************************************************)
Returned(val) == [kind |-> "return", exc |-> "", val |-> val]

Raised(exc) == [kind |-> "raise", exc |-> exc, val |-> NoBlob]

\* parse_content of each payload
ParsedPayloads == Tabulate([p \in Payloads |-> parse_content(p)])

\* the possible runs of parse_contents on a non-None list: what it returns
\* or raises, and the frame it serialized
\* from the concatenation on
RunsOfConcat(cat) ==
    IF cat.kind = "raise"
    THEN {[ret |-> Raised(cat.exc), df |-> NoFrame]}
    ELSE {[ret |-> Returned(to_json(sorted)), df |-> sorted] :
             sorted \in SortValues(AddUnitColumns(AddBuckets(cat.f)), DATE_COL)}

\* from the list of parsed children on
RunsOfChildren(children) ==
    IF \E i \in DOMAIN children : children[i].kind = "raise"
    THEN {[ret |-> Raised("ValueError"), df |-> NoFrame]}
    ELSE RunsOfConcat(Concat(children))

ParseContentsRuns(list) ==
    RunsOfChildren([i \in DOMAIN list |-> ParsedPayloads[list[i]]])

RunsOf ==
    Tabulate([input \in ContentsInputs |->
                 IF input.none
                 THEN {[ret |-> Returned(NoBlob), df |-> NoFrame]}
                 ELSE ParseContentsRuns(input.list)])

\* parse_contents that adds the new rows to those already stored
parse_contents_append(list_of_contents) ==
    \E run \in RunsOf[list_of_contents] :
        /\ op' = "parse_contents"
        /\ args' = list_of_contents
        /\ ret' = run.ret
        /\ df' = IF run.ret.kind = "return" THEN run.df ELSE df
        /\ store' = IF run.ret.kind # "return" THEN store
                    ELSE IF store.none \/ run.ret.val.none THEN run.ret.val
                    ELSE [run.ret.val EXCEPT !.rows = store.rows \o @]

\* Dash writes the returned value to the store; a raised exception leaves the
\* store as it was
parse_contents(list_of_contents) ==
    \E run \in RunsOf[list_of_contents] :
        /\ op' = "parse_contents"
        /\ args' = list_of_contents
        /\ ret' = run.ret
        /\ df' = IF run.ret.kind = "return" THEN run.df ELSE df
        /\ store' = IF run.ret.kind = "return" THEN run.ret.val ELSE store

\* every value the store can hold, and what _parse_json makes of each
Blobs == {NoBlob} \cup UNION {{run.ret.val : run \in RunsOf[c]} : c \in ContentsInputs}

ParsedTable == Tabulate([b \in Blobs |-> parse_json(b)])

(***************************************************************************)
(* update_options                                                          *)
(***************************************************************************)
\* list.sort() on the labels: each goes to the place its rank gives it
\* (equal labels keep their order)
SortLabels(cols) ==
    LET before(i, j) == StrLess(cols[i], cols[j]) \/ (cols[i] = cols[j] /\ i < j)
        rank == [i \in DOMAIN cols |-> 1 + Cardinality({j \in DOMAIN cols : before(j, i)})]
    IN  [k \in DOMAIN cols |-> cols[CHOOSE i \in DOMAIN cols : rank[i] = k]]

\* the dropdown options of the columns kept
Options(cols) ==
    [i \in DOMAIN cols |-> [label |-> normalise_camel_case(cols[i]), value |-> cols[i]]]

OptionsOf(json_data) ==
    IF json_data.none THEN <<>>
    ELSE Options(SelectSeq(SortLabels(ParsedTable[json_data].f.cols),
                           LAMBDA col : col \notin Range(TIME_COLS)))

OptionsTable == Tabulate([b \in Blobs |-> OptionsOf(b)])

update_options ==
    /\ op' = "update_options"
    /\ args' = NoContents
    /\ ret' = Returned(OptionsTable[store])
    /\ UNCHANGED <<store, df>>

(***************************************************************************)
(* update_output: df.groupby(x_col).agg({y_col: agg_func}).reset_index()   *)
(***************************************************************************)
None == "None"

\* order of two non-null cells of one column
CellLess(a, b) ==
    IF a.k = "str" THEN StrLess(a.s, b.s) ELSE a.n * b.d < b.n * a.d

LCM(a, b) == (a \div GCD(a, b)) * b

\* a + b for two number cells
AddCells(a, b) ==
    LET l == LCM(a.d, b.d)
        c == Num(a.n * (l \div a.d) + b.n * (l \div b.d), l)
    IN  [c EXCEPT !.r = a.r \/ b.r]

RECURSIVE SumCells(_)
SumCells(cells) ==
    IF cells = <<>> THEN Num(0, 1) ELSE AddCells(Head(cells), SumCells(Tail(cells)))

\* c / k for a positive integer k
DivCell(c, k) == [Num(c.n, c.d * k) EXCEPT !.r = c.r]

\* the cells in ascending order (equal cells keep their order)
SortCells(cells) ==
    LET before(i, j) == CellLess(cells[i], cells[j])
                          \/ (~CellLess(cells[j], cells[i]) /\ i < j)
        rank == [i \in DOMAIN cells |->
                    1 + Cardinality({j \in DOMAIN cells : before(j, i)})]
    IN  [k \in DOMAIN cells |-> cells[CHOOSE i \in DOMAIN cells : rank[i] = k]]

\* Aggregate whose sum is null as soon as one value is
AggregateNoSkip(agg_func, values) ==
    LET present == SelectSeq(values, LAMBDA c : ~IsNull(c))
        n       == Len(present)
        ordered == SortCells(present)
    IN  CASE agg_func = "count" -> Num(n, 1)
          [] agg_func = "sum" -> IF n < Len(values) THEN NaN ELSE SumCells(present)
          [] n = 0 -> NaN
          [] agg_func = "mean" -> DivCell(SumCells(present), n)
          [] agg_func = "min" -> ordered[1]
          [] agg_func = "max" -> ordered[n]
          [] agg_func = "median" ->
                IF n % 2 = 1 THEN ordered[(n + 1) \div 2]
                ELSE DivCell(AddCells(ordered[n \div 2], ordered[n \div 2 + 1]), 2)

\* the named reduction over the non-null values of one group
Aggregate(agg_func, values) ==
    LET present == SelectSeq(values, LAMBDA c : ~IsNull(c))
        n       == Len(present)
        ordered == SortCells(present)
    IN  CASE agg_func = "count" -> Num(n, 1)
          [] agg_func = "sum" -> SumCells(present)
          [] n = 0 -> NaN
          [] agg_func = "mean" -> DivCell(SumCells(present), n)
          [] agg_func = "min" -> ordered[1]
          [] agg_func = "max" -> ordered[n]
          [] agg_func = "median" ->
                IF n % 2 = 1 THEN ordered[(n + 1) \div 2]
                ELSE DivCell(AddCells(ordered[n \div 2], ordered[n \div 2 + 1]), 2)

\* the distinct non-null keys, ascending (groupby sorts its keys and drops nulls)
DistinctKeys(cells) ==
    LET firsts == SelectSeq([i \in DOMAIN cells |-> i],
                            LAMBDA i : /\ ~IsNull(cells[i])
                                       /\ \A j \in 1..(i - 1) : cells[j] # cells[i])
    IN  SortCells([k \in DOMAIN firsts |-> cells[firsts[k]]])

GroupByAgg(f, x_col, y_col, agg_func) ==
    IF ~HasCol(f, x_col) \/ ~HasCol(f, y_col) \/ x_col = y_col
    THEN [kind |-> "raise", exc |-> "KeyError", f |-> NoFrame]
    ELSE LET keys == Tuple(DistinctKeys(Tuple(Column(f, x_col))))
             group(key) == SelectSeq(f.rows, LAMBDA row : row.c[x_col] = key)
             value(key) == Aggregate(agg_func,
                                     [i \in DOMAIN group(key) |-> group(key)[i].c[y_col]])
         IN  [kind |-> "df", exc |-> "",
              f |-> Frame(<<x_col, y_col>>,
                          [i \in DOMAIN keys |->
                              [idx |-> i - 1,
                               c   |-> (x_col :> keys[i]) @@ (y_col :> value(keys[i]))]])]

\* what update_output returns: nothing, or the figure's data and title
NoPlot == [none |-> TRUE, f |-> NoFrame, title |-> ""]

Plot(f, title) == [none |-> FALSE, f |-> f, title |-> title]

\* the scatter plot of the aggregated frame; an exception of groupby or agg
\* passes through
Figure(plot_df, title) ==
    IF plot_df.kind = "raise"
    THEN [kind |-> "raise", exc |-> plot_df.exc, val |-> NoPlot]
    ELSE Returned(Plot(plot_df.f, title))

\* UpdateOutputResult without the test for an absent store
UpdateOutputResultNoStoreCheck(json_data, y_col, x_col, agg_func) ==
    IF x_col = None \/ y_col = None \/ agg_func = None
    THEN Returned(NoPlot)
    ELSE IF json_data.none
    THEN [kind |-> "raise", exc |-> "AttributeError", val |-> NoPlot]
    ELSE Figure(GroupByAgg(ParsedTable[json_data].f, x_col, y_col, agg_func),
                Capitalize(agg_func) \o " of "
                  \o normalise_camel_case(y_col) \o " by " \o x_col)

UpdateOutputResult(json_data, y_col, x_col, agg_func) ==
    IF json_data.none THEN Returned(NoPlot)
    ELSE IF x_col = None \/ y_col = None \/ agg_func = None
    THEN Returned(NoPlot)
    ELSE Figure(GroupByAgg(ParsedTable[json_data].f, x_col, y_col, agg_func),
                Capitalize(agg_func) \o " of "
                  \o normalise_camel_case(y_col) \o " by " \o x_col)

\* the values the three dropdowns can hold
MetricValues == {None, "activeHours", "restingHeartRate"}

GroupByValues == {None} \cup Range(TIME_COLS)

FunctionValues == {None} \cup Range(AGGREGATE_FUNCTIONS)

Requests == [y_col : MetricValues, x_col : GroupByValues, agg_func : FunctionValues]

OutputTable ==
    Tabulate([k \in Blobs \X Requests |->
                 UpdateOutputResult(k[1], k[2].y_col, k[2].x_col, k[2].agg_func)])

update_output(y_col, x_col, agg_func) ==
    /\ op' = "update_output"
    /\ args' = [y_col |-> y_col, x_col |-> x_col, agg_func |-> agg_func]
    /\ ret' = OutputTable[<<store, args'>>]
    /\ UNCHANGED <<store, df>>

(***************************************************************************)
(* download_data                                                           *)
(***************************************************************************)
DownloadResult(json_data) ==
    IF json_data.none
    THEN Returned([none |-> TRUE, f |-> NoFrame, filename |-> ""])
    ELSE Returned([none |-> FALSE, f |-> ParsedTable[json_data].f,
                   filename |-> "merged-garmin-export-data.csv"])

DownloadTable == Tabulate([b \in Blobs |-> DownloadResult(b)])

download_data ==
    /\ op' = "download_data"
    /\ args' = NoContents
    /\ ret' = DownloadTable[store]
    /\ UNCHANGED <<store, df>>

Init ==
    /\ store = NoBlob
    /\ op = "init"
    /\ args = NoContents
    /\ ret = Returned(NoBlob)
    /\ df = NoFrame

Next ==
    \/ \E c \in ContentsInputs : parse_contents(c)
    \/ update_options
    \/ \E y \in MetricValues, x \in GroupByValues, f \in FunctionValues :
          update_output(y, x, f)
    \/ download_data

Spec == Init /\ [][Next]_vars

(***************************************************************************)
(* Properties                                                              *)
(***************************************************************************)
\* the last event was an ingestion that returned a dataset
Ingested == op = "parse_contents" /\ ret.kind = "return" /\ ~args.none

\* the tables parse_content made of the files of an upload
FileTable(list, i) == ParsedPayloads[list[i]].f

UploadedCols(list) == UNION {Range(FileTable(list, i).cols) : i \in DOMAIN list}

\* the units: how many of the source unit make one of the target unit
TargetUnits ==
    << [suffix |-> "Meters",       target |-> "Kilometers", per |-> 1000],
       [suffix |-> "Minutes",      target |-> "Hours",      per |-> 60],
       [suffix |-> "Seconds",      target |-> "Hours",      per |-> 3600],
       [suffix |-> "Milliseconds", target |-> "Hours",      per |-> 3600000] >>

\* col with its trailing suffix, and only that, replaced
TrailingName(col, u) == SubSeq(col, 1, Len(col) - Len(u.suffix)) \o u.target

\* the (column, unit) pairs the derivation step applies to
UnitSources(cols) ==
    {su \in cols \X Range(TargetUnits) : EndsWith(su[1], su[2].suffix)}

\* C1: after an ingestion, a unit-converted column holds its source column's
\* value expressed in the target unit (metres / 1000, minutes / 60,
\* seconds / 3600, milliseconds / 3600000), for every column that is the only
\* source of its converted column.
C1_UnitConversion ==
    Ingested =>
        \A su \in UnitSources(UploadedCols(args.list)) :
            LET name == TrailingName(su[1], su[2])
            IN  (/\ HasCol(df, name)
                 /\ \A other \in UnitSources(UploadedCols(args.list)) :
                        other # su => TrailingName(other[1], other[2]) # name)
                => \A i \in DOMAIN df.rows :
                       LET src == df.rows[i].c[su[1]]
                       IN  src.k = "num" =>
                              df.rows[i].c[name] = Num(src.n, src.d * su[2].per)

\* C2: after an ingestion, the columns added by the derivation step are exactly
\* one per column whose name ends with a recognized suffix, named by replacing
\* that trailing suffix only; no other column is added.
C2_OneDerivedColumnPerSource ==
    Ingested =>
        LET pre     == UploadedCols(args.list) \cup Range(TIME_COLS)
            sources == UnitSources(pre)
            added   == Range(df.cols) \ pre
        IN  /\ added = {TrailingName(su[1], su[2]) : su \in sources}
            /\ Cardinality(added) = Cardinality(sources)

\* C3 as claimed: an ingestion of zero files, the list absent or empty, ends in
\* an error.
C3_ZeroFilesIsError ==
    (op = "parse_contents" /\ (args.none \/ args.list = <<>>)) => ret.kind = "raise"

\* C3 as amended: an ingestion of an empty list raises (pandas' ValueError for
\* nothing to concatenate) and returns no dataset; an ingestion with the list
\* absent returns None, without an error, and None is what the store then holds.
C3_EmptyListRaisesAbsentListReturnsNone ==
    op = "parse_contents" =>
        /\ (~args.none /\ args.list = <<>>) => ret = Raised("ValueError")
        /\ args.none => (ret = Returned(NoBlob) /\ store = NoBlob)

C3_Witness ==
    /\ op = "parse_contents"
    /\ ~args.none
    /\ args.list = <<>>
    /\ ret.kind = "raise"
    /\ ~store.none

\* C4: an ingestion with at least one file that parse_content turns into its
\* error Div returns no dataset, wherever the file stands in the upload.
C4_BadFileFailsBatch ==
    (/\ op = "parse_contents"
     /\ ~args.none
     /\ \E i \in DOMAIN args.list : ParsedPayloads[args.list[i]].kind = "Div")
    => (ret.kind = "raise" /\ ret.val = NoBlob)

C4_Witness ==
    /\ op = "parse_contents"
    /\ ~args.none
    /\ Len(args.list) = 2
    /\ ParsedPayloads[args.list[1]].kind = "df"
    /\ ParsedPayloads[args.list[2]].kind = "Div"
    /\ ret.kind = "raise"

\* the rows of a frame without their index labels, on the columns in cols
RowCells(f, cols) == [i \in DOMAIN f.rows |-> [x \in cols |-> f.rows[i].c[x]]]

Count(seq, x) == Cardinality({i \in DOMAIN seq : seq[i] = x})

SameBag(a, b) ==
    /\ Len(a) = Len(b)
    /\ \A i \in DOMAIN a : Count(a, a[i]) = Count(b, a[i])

Reverse(list) == [i \in DOMAIN list |-> list[Len(list) + 1 - i]]

\* the last event was the ingestion of two files that parsed
IngestedPair ==
    /\ Ingested
    /\ Len(args.list) = 2
    /\ Contents(Reverse(args.list)) \in ContentsInputs

\* C5 as claimed: the uploads [A, B] and [B, A] give the same rows in the same
\* order.
C5_OrderIndependent ==
    IngestedPair =>
        \A run \in RunsOf[Contents(Reverse(args.list))] :
            RowCells(run.df, Range(df.cols)) = RowCells(df, Range(df.cols))

\* the converted columns whose values do not depend on the order of the files:
\* those with one source column
SettledCols(f, list) ==
    LET sources == UnitSources(UploadedCols(list))
        name(su) == StrReplace(su[1], su[2].suffix, su[2].target)
    IN  {x \in Range(f.cols) :
            Cardinality({su \in sources : name(su) = x}) <= 1}

DatesDistinct(f) ==
    \A i, j \in DOMAIN f.rows :
        i # j => f.rows[i].c[DATE_COL] # f.rows[j].c[DATE_COL]

\* C5 as amended: the uploads [A, B] and [B, A] give the same rows as a bag
\* and the same sequence of calendarDate values, and the same row order when
\* no two rows have equal calendarDate; this on every column but the
\* converted columns that several uploaded columns are converted into.
C5_OrderIndependentUpToTies ==
    IngestedPair =>
        \A run \in RunsOf[Contents(Reverse(args.list))] :
            LET cols == SettledCols(df, args.list)
                mine == RowCells(df, cols)
                other == RowCells(run.df, cols)
            IN  /\ Range(run.df.cols) = Range(df.cols)
                /\ SameBag(mine, other)
                /\ RowCells(run.df, {DATE_COL}) = RowCells(df, {DATE_COL})
                /\ DatesDistinct(df) => other = mine

C5_Witness ==
    /\ IngestedPair
    /\ DatesDistinct(df)
    /\ Len(df.rows) = 4
    /\ df.rows[1].idx # 0

\* C6: after an ingestion the rows are in non-decreasing calendarDate order,
\* and rows with equal calendarDate are in the order the concatenation gave
\* them (their index labels ascend).
C6_SortedAndStable ==
    Ingested =>
        /\ IsSortedBy(df.rows, DATE_COL)
        /\ \A i, j \in DOMAIN df.rows :
              (i < j /\ df.rows[i].c[DATE_COL] = df.rows[j].c[DATE_COL])
              => df.rows[i].idx < df.rows[j].idx

\* the sum of column y_col over the rows of f whose index is in S
RECURSIVE SumOver(_, _, _)
SumOver(f, y_col, S) ==
    IF S = {} THEN Num(0, 1)
    ELSE LET j == CHOOSE j \in S : TRUE
         IN  AddCells(f.rows[j].c[y_col], SumOver(f, y_col, S \ {j}))

\* C7: a query with function sum that returns a figure has one row per
\* distinct value of the group column, in ascending order of that value, and
\* each row holds the sum of the non-null entries of the value column over the
\* rows of the stored table with that group value.
C7_SumPerGroup ==
    (/\ op = "update_output"
     /\ args.agg_func = "sum"
     /\ ret.kind = "return"
     /\ ~ret.val.none)
    => LET t    == ParsedTable[store].f
           out  == ret.val.f
           keys == {t.rows[j].c[args.x_col] : j \in DOMAIN t.rows}
       IN  /\ {out.rows[i].c[args.x_col] : i \in DOMAIN out.rows} = keys
           /\ Len(out.rows) = Cardinality(keys)
           /\ \A i, j \in DOMAIN out.rows :
                 i < j => CellLess(out.rows[i].c[args.x_col],
                                   out.rows[j].c[args.x_col])
           /\ \A i \in DOMAIN out.rows :
                 out.rows[i].c[args.y_col] =
                    SumOver(t, args.y_col,
                            {j \in DOMAIN t.rows :
                                /\ t.rows[j].c[args.x_col] = out.rows[i].c[args.x_col]
                                /\ ~IsNull(t.rows[j].c[args.y_col])})

C7_Witness ==
    /\ op = "update_output"
    /\ args.agg_func = "sum"
    /\ ret.kind = "return"
    /\ ~ret.val.none
    /\ Len(ret.val.f.rows) >= 2
    /\ LET t == ParsedTable[store].f
       IN  \E i, j \in DOMAIN t.rows :
              /\ i # j
              /\ t.rows[i].c[args.x_col] = t.rows[j].c[args.x_col]
              /\ IsNull(t.rows[i].c[args.y_col])
              /\ ~IsNull(t.rows[j].c[args.y_col])

\* C8: a query made while the store holds no dataset, or with its value
\* column, group column or function not chosen, returns no figure and raises
\* no error.
C8_IncompleteRequestNoResult ==
    (/\ op = "update_output"
     /\ \/ store.none
        \/ args.y_col = None
        \/ args.x_col = None
        \/ args.agg_func = None)
    => ret = Returned(NoPlot)

C8_Witness ==
    /\ op = "update_output"
    /\ store.none
    /\ args.y_col # None
    /\ args.x_col # None
    /\ args.agg_func # None
    /\ ret = Returned(NoPlot)

\* C9: the table read back from the serialized dataset of an ingestion equals
\* the table the ingestion built, cell for cell, year being text.
C9_RoundTrip ==
    Ingested => ParsedTable[store].f = df

\* the number of rows of the files before the i-th of an upload
RECURSIVE Offset(_, _)
Offset(list, i) ==
    IF i = 1 THEN 0 ELSE Offset(list, i - 1) + Len(FileTable(list, i - 1).rows)

\* every row of the blob is one row of one file of the upload, labelled by its
\* position in the concatenation, and no two rows are the same file row
BuiltFrom(blob, list) ==
    /\ Len(blob.rows) = Offset(list, Len(list) + 1)
    /\ \A a, b \in DOMAIN blob.rows : a # b => blob.rows[a].idx # blob.rows[b].idx
    /\ \A a \in DOMAIN blob.rows :
          \E i \in DOMAIN list :
              \E k \in DOMAIN FileTable(list, i).rows :
                  /\ blob.rows[a].idx = ToString(Offset(list, i) + k - 1)
                  /\ \A x \in Range(FileTable(list, i).cols) :
                        blob.rows[a].c[x] = JsonCell(FileTable(list, i).rows[k].c[x])
                  /\ \A x \in UploadedCols(list) \ Range(FileTable(list, i).cols) :
                        IsNull(blob.rows[a].c[x])

\* C10: update_options, update_output and download_data leave the store as it
\* is; an ingestion that returns puts what it returns in the store, and what
\* it returns is made of the rows of the uploaded files and of nothing else.
C10_StoreWrittenOnlyByIngestion ==
    [][/\ op' # "parse_contents" => store' = store
       /\ (op' = "parse_contents" /\ ret'.kind = "return") =>
             /\ store' = ret'.val
             /\ args'.none => store' = NoBlob
             /\ ~args'.none => BuiltFrom(store', args'.list)]_vars

C10_Witness ==
    /\ op = "parse_contents"
    /\ ret.kind = "return"
    /\ ~args.none
    /\ Len(args.list) = 1
    /\ Len(store.rows) = 1
    /\ store = ret.val

====
